---------------------------- MODULE Spec2Model ----------------------------
(***************************************************************************)
(* The regex -> postfix -> Thompson NFA -> subset DFA -> Hopcroft minimal  *)
(* DFA -> string simulation pipeline of TOA_Project_Group12_FULL.          *)
(*                                                                         *)
(* Characters are one-character strings, a Python str is a sequence of     *)
(* them.  The state label f'q{n}' is the integer n, f'D{n}' the integer n, *)
(* f'M{i}' the integer i, and 'DEAD' is the integer DEAD: the formatting   *)
(* is injective and no label of one family is ever compared with a label   *)
(* of another.  A Python dict is a function, its keys the DOMAIN.          *)
(***************************************************************************)
EXTENDS Integers, Sequences, FiniteSets, TLC

(***************************************************************************)
(* Bounds of the model.                                                    *)
(***************************************************************************)
MaxRegexLen == 4
MaxTestLen == 3

(***************************************************************************)
(* Characters.                                                             *)
(***************************************************************************)
None == "None"
EPS == "eps"
\* 'DEAD', the None of a missing transition, and the trace's "REJECT", as labels
DEAD == -1
NoneState == -2
REJECT == -3

\* The characters of the hardcoded regex of main.py, of the bounded ones
\* and of the worked examples.
AlnumChars == {"a", "b", "c", "g", "h", "m", "p"}

\* str.isalnum() on one character
IsAlnum(c) == c \in AlnumChars

\* ord(c): the order sorted() puts one-character strings in
Ord(c) ==
    CASE c = " " -> 32
      [] c = "(" -> 40
      [] c = ")" -> 41
      [] c = "*" -> 42
      [] c = "+" -> 43
      [] c = "." -> 46
      [] c = "a" -> 97
      [] c = "b" -> 98
      [] c = "c" -> 99
      [] c = "g" -> 103
      [] c = "h" -> 104
      [] c = "m" -> 109
      [] c = "p" -> 112
      [] OTHER -> 0

\* The characters the bounded regexes are drawn from.
RegexChars == {"a", "b", "+", "*", "(", ")", " ", "."}

\* The characters the bounded test strings are drawn from.
TestChars == {"a", "b"}

\* All sequences over S of length at most n
SeqsUpTo(S, n) == UNION {[1..k -> S] : k \in 0..n}

\* REGEX of main.py: "ggh + m(pg + gg + ggg)*m + hg"
REGEX ==
    <<"g", "g", "h", " ", "+", " ", "m", "(", "p", "g", " ", "+", " ", "g", "g",
      " ", "+", " ", "g", "g", "g", ")", "*", "m", " ", "+", " ", "h", "g">>

\* Two worked examples of operator precedence: "a+bc*" and "(a+b)c"
ExampleRegexes ==
    {<<"a", "+", "b", "c", "*">>, <<"(", "a", "+", "b", ")", "c">>}

\* The test strings tried against REGEX.
GroupTests ==
    {<<>>, <<"g", "g", "h">>, <<"m", "p", "g", "m">>, <<"m", "m">>,
     <<"m", "p", "m">>, <<"h", "g">>}

(***************************************************************************)
(* regex_parser.py                                                         *)
(***************************************************************************)
\* A call's outcome: a returned value, or the exception raised.
Returned(v) == [exc |-> "none", msg |-> "", pos |-> -1, value |-> v]
Raised(e, m, p) == [exc |-> e, msg |-> m, pos |-> p, value |-> <<>>]

\* Mutant: an operator right after '(' is let through
InvalidOperatorUse_AfterParenAllowed(prev) == prev = None \/ prev \in {"+", "."}

\* lines 16 and 19: prev is None or prev in '+.('
InvalidOperatorUse(prev) == prev = None \/ prev \in {"+", ".", "("}

RECURSIVE ValidateScan(_, _, _, _)
\* The loop of validate_regex from (1-based) index i on, and what follows it.
ValidateScan(regex, i, stack, prev) ==
    IF i > Len(regex)
    THEN IF stack # <<>>
         THEN Raised("ValueError", "Missing closing parenthesis", stack[Len(stack)])
         ELSE IF prev = None
         THEN Raised("TypeError", "'in <string>' requires string as left operand", -1)
         ELSE IF prev \in {"+", "."}
         THEN Raised("ValueError", "Expression ends with invalid operator", -1)
         ELSE Returned(<<>>)
    ELSE LET c == regex[i] IN
         IF c = " " THEN ValidateScan(regex, i + 1, stack, prev)
         ELSE IF c = "(" THEN ValidateScan(regex, i + 1, Append(stack, i - 1), c)
         ELSE IF c = ")"
         THEN IF stack = <<>>
              THEN Raised("ValueError", "Unmatched closing parenthesis", i - 1)
              ELSE ValidateScan(regex, i + 1, SubSeq(stack, 1, Len(stack) - 1), c)
         ELSE IF c = "+"
         THEN IF InvalidOperatorUse(prev)
              THEN Raised("ValueError", "Invalid use of '+'", i - 1)
              ELSE ValidateScan(regex, i + 1, stack, c)
         ELSE IF c = "*"
         THEN IF InvalidOperatorUse(prev)
              THEN Raised("ValueError", "Invalid use of '*'", i - 1)
              ELSE IF prev = "*"
              THEN Raised("ValueError", "Invalid repetition operator '*'", i - 2)
              ELSE ValidateScan(regex, i + 1, stack, c)
         ELSE IF ~IsAlnum(c)
         THEN Raised("ValueError", "Unknown symbol", i - 1)
         ELSE ValidateScan(regex, i + 1, stack, c)

validate_regex(regex) == ValidateScan(regex, 1, <<>>, None)

\* Mutant: no concatenation is inserted after a star
NeedsConcat_NotAfterStar(prev, c) ==
    /\ prev # None
    /\ (IsAlnum(prev) \/ prev = ")")
    /\ (IsAlnum(c) \/ c = "(")

\* lines 39-40: whether '.' goes between prev and c
NeedsConcat(prev, c) ==
    /\ prev # None
    /\ (IsAlnum(prev) \/ prev = "*" \/ prev = ")")
    /\ (IsAlnum(c) \/ c = "(")

RECURSIVE AddConcatScan(_, _, _, _)
AddConcatScan(regex, i, output, prev) ==
    IF i > Len(regex) THEN output
    ELSE LET c == regex[i] IN
         IF c = " " THEN AddConcatScan(regex, i + 1, output, prev)
         ELSE LET dot == NeedsConcat(prev, c)
              IN AddConcatScan(regex, i + 1,
                               (IF dot THEN Append(output, ".") ELSE output) \o <<c>>, c)

add_concat(regex) == AddConcatScan(regex, 1, <<>>, None)

\* Mutant: '.' given the precedence of '+'
precedence_ConcatAsUnion(t) ==
    CASE t = "*" -> 3
      [] t = "." -> 1
      [] t = "+" -> 1
      [] OTHER -> 0

\* Mutant: '*' given the lowest precedence
precedence_StarLowest(t) ==
    CASE t = "*" -> 0
      [] t = "." -> 2
      [] t = "+" -> 1
      [] OTHER -> 0

\* precedence.get(t, 0)
precedence(t) ==
    CASE t = "*" -> 3
      [] t = "." -> 2
      [] t = "+" -> 1
      [] OTHER -> 0

Top(stack) == stack[Len(stack)]
Pop(stack) == SubSeq(stack, 1, Len(stack) - 1)

RECURSIVE PopWhile(_, _, _)
\* The two inner while loops of to_postfix: pops operators to out; token is
\* ")" for the loop of line 59.  Returns <<out, stack>>.
PopWhile(out, stack, token) ==
    IF /\ stack # <<>>
       /\ Top(stack) # "("
       /\ (token = ")" \/ precedence(Top(stack)) >= precedence(token))
    THEN PopWhile(Append(out, Top(stack)), Pop(stack), token)
    ELSE <<out, stack>>

RECURSIVE Drain(_, _)
\* The final while loop of to_postfix.
Drain(out, stack) ==
    IF stack = <<>> THEN Returned(out)
    ELSE IF Top(stack) \in {"(", ")"}
    THEN Raised("ValueError", "Unmatched parenthesis in expression", -1)
    ELSE Drain(Append(out, Top(stack)), Pop(stack))

RECURSIVE Shunt(_, _, _, _)
Shunt(regex2, i, out, stack) ==
    IF i > Len(regex2) THEN Drain(out, stack)
    ELSE LET token == regex2[i] IN
         IF IsAlnum(token) THEN Shunt(regex2, i + 1, Append(out, token), stack)
         ELSE IF token = "(" THEN Shunt(regex2, i + 1, out, Append(stack, token))
         ELSE IF token = ")"
         THEN LET r == PopWhile(out, stack, token) IN
              IF r[2] = <<>>
              THEN Raised("ValueError", "Unmatched parenthesis during parsing", -1)
              ELSE Shunt(regex2, i + 1, r[1], Pop(r[2]))
         ELSE LET r == PopWhile(out, stack, token) IN
              Shunt(regex2, i + 1, r[1], Append(r[2], token))

to_postfix(regex) ==
    LET v == validate_regex(regex) IN
    IF v.exc # "none" THEN v
    ELSE Shunt(add_concat(regex), 1, <<>>, <<>>)


(***************************************************************************)
(* Python dicts and lists.                                                 *)
(***************************************************************************)
EmptyDict == <<>>

\* {**a, **b}: the keys of both, b's value where both have the key
DictMerge(a, b) == b @@ a

\* d.setdefault(k, v), as the dict it leaves
SetDefault(d, k, v) == IF k \in DOMAIN d THEN d ELSE d @@ (k :> v)

\* d.get(k, default)
Get(d, k, default) == IF k \in DOMAIN d THEN d[k] ELSE default

\* The elements of a list, as a set
Range(f) == {f[x] : x \in DOMAIN f}

(***************************************************************************)
(* State.  Two invocations of the pipeline (run, run_pipeline on a thread  *)
(* of run_pipeline_threaded) share the module-level counters; each has its *)
(* own call frame.                                                         *)
(***************************************************************************)
Inv == {1, 2}

VARIABLES
    counter,    \* thompson_nfa._counter: the number next(_counter) returns next
    dcounter,   \* subset_dfa._dcounter: the number next(_dcounter) returns next
    issued,     \* history: every number _new_state() has returned, in order
    frame       \* frame[i]: the locals of invocation i of the pipeline

vars == <<counter, dcounter, issued, frame>>

NoNFA == [start |-> NoneState, accept |-> NoneState, states |-> EmptyDict]
NoDFA ==
    [start |-> NoneState, states |-> EmptyDict, transitions |-> EmptyDict,
     final_states |-> {}, alphabet |-> {}]
NoSubset ==
    [alphabet |-> {}, mapping |-> EmptyDict, dstates |-> EmptyDict,
     dtrans |-> EmptyDict, dfinal |-> {}, q |-> <<>>, T |-> {}, rest |-> <<>>]
NoHopcroft ==
    [alphabet |-> <<>>, states |-> {}, trans |-> EmptyDict, P |-> <<>>, W |-> <<>>,
     steps |-> <<>>, A |-> {}, rest |-> <<>>]
NoSimulation == [trace |-> <<>>, result |-> "Pending"]

\* The frame of an invocation called with regex; pc "off" is an invocation
\* that is never made.  The test string is not read before step 5 of the
\* pipeline, and is drawn there.
NewFrame(regex, pc) ==
    [pc |-> pc, regex |-> regex, teststring |-> <<>>,
     failed |-> Returned(<<>>), stage |-> "",
     postfix |-> <<>>,
     counter0 |-> 0, tokpos |-> 1, fresh |-> <<>>, stack |-> <<>>, nfa |-> NoNFA,
     sub |-> NoSubset, dfa |-> NoDFA,
     round |-> 1, hin |-> NoDFA, hop |-> NoHopcroft,
     min_dfa |-> NoDFA, steps |-> <<>>, first_min |-> NoDFA,
     simulation |-> NoSimulation]

\* One invocation, on a bounded regex, on the hardcoded one or on a worked
\* example.
Init ==
    /\ counter = 0
    /\ dcounter = 0
    /\ issued = <<>>
    /\ \E r \in SeqsUpTo(RegexChars, MaxRegexLen) \cup {REGEX} \cup ExampleRegexes :
          frame = [i \in Inv |-> IF i = 1 THEN NewFrame(r, "parse")
                                 ELSE NewFrame(<<>>, "off")]

\* The regexes of the two invocations that run_pipeline_threaded started:
\* the same regex twice and two different ones, over symbol, concatenation,
\* star and union, and one whose NFA construction raises.
ConcRuns ==
    {<< <<"a">>, <<"a">> >>,
     << <<"a", "a">>, <<"a", "a">> >>,
     << <<"a", "*">>, <<"a", "*">> >>,
     << <<"a", "a">>, <<"a", "*">> >>,
     << <<"a", "+", "a">>, <<"a">> >>,
     << <<"a">>, <<"a", "+", "a">> >>,
     << <<"a", "(", ")">>, <<"a", "a">> >>,
     << <<"+">>, <<"a">> >>}

InitConc ==
    /\ counter = 0
    /\ dcounter = 0
    /\ issued = <<>>
    /\ \E runs \in ConcRuns : frame = [i \in Inv |-> NewFrame(runs[i], "parse")]

\* frame' with invocation i's frame replaced
SetFrame(i, f) == frame' = [frame EXCEPT ![i] = f]

\* run's except clauses: the stage's exception ends the invocation
Fail(f, stage, r) == [f EXCEPT !.pc = "failed", !.stage = stage, !.failed = r]

(***************************************************************************)
(* main.py run, step 1: to_postfix                                         *)
(***************************************************************************)
ParseRegex(i) ==
    /\ frame[i].pc = "parse"
    /\ LET f == frame[i]
           r == to_postfix(f.regex)
       IN SetFrame(i, IF r.exc # "none" THEN Fail(f, "parse", r)
                      ELSE [f EXCEPT !.pc = "nfa", !.postfix = r.value,
                                     !.counter0 = counter])
    /\ UNCHANGED <<counter, dcounter, issued>>

(***************************************************************************)
(* thompson_nfa.py                                                         *)
(***************************************************************************)
\* NFA.add_transition
add_transition(n, src, symbol, dst) ==
    LET s1 == SetDefault(n.states, src, EmptyDict)
        s2 == SetDefault(s1, dst, EmptyDict)
    IN [n EXCEPT !.states =
           [s2 EXCEPT ![src] = (symbol :> Append(Get(s2[src], symbol, <<>>), dst)) @@ s2[src]]]

\* The fragment of a symbol token
SymbolFragment(token, s, t) ==
    add_transition([start |-> s, accept |-> t,
                    states |-> (s :> EmptyDict) @@ (t :> EmptyDict)], s, token, t)

\* Mutant: star without the edge from the operand's accept back to its start
StarFragment_NoLoop(n1, s, t) ==
    LET states == SetDefault(SetDefault(n1.states, s, EmptyDict), t, EmptyDict)
        n == [start |-> s, accept |-> t, states |-> states]
    IN add_transition(
         add_transition(
           add_transition(n, s, EPS, n1.start),
           s, EPS, t),
         n1.accept, EPS, t)

\* The fragment of '*'
StarFragment(n1, s, t) ==
    LET states == SetDefault(SetDefault(n1.states, s, EmptyDict), t, EmptyDict)
        n == [start |-> s, accept |-> t, states |-> states]
    IN add_transition(
         add_transition(
           add_transition(
             add_transition(n, s, EPS, n1.start),
             s, EPS, t),
           n1.accept, EPS, n1.start),
         n1.accept, EPS, t)

\* The fragment of '.'
ConcatFragment(n1, n2) ==
    add_transition([start |-> n1.start, accept |-> n2.accept,
                    states |-> DictMerge(n1.states, n2.states)],
                   n1.accept, EPS, n2.start)

\* The fragment of '+'
UnionFragment(n1, n2, s, t) ==
    LET states == SetDefault(SetDefault(DictMerge(n1.states, n2.states), s, EmptyDict),
                             t, EmptyDict)
        n == [start |-> s, accept |-> t, states |-> states]
    IN add_transition(
         add_transition(
           add_transition(
             add_transition(n, s, EPS, n1.start),
             s, EPS, n2.start),
           n1.accept, EPS, t),
         n2.accept, EPS, t)

\* The token build_from_postfix is at
Token(f) == f.postfix[f.tokpos]

\* Whether the handler of the current token reaches its _new_state() calls
\* (a pop of an empty stack raises before them).
ReachesNewState(f) ==
    \/ IsAlnum(Token(f))
    \/ Token(f) = "*" /\ Len(f.stack) >= 1
    \/ Token(f) = "+" /\ Len(f.stack) >= 2

\* Mutant: a read of the counter that misses the latest increment
NextOfCounter_Stale == IF counter > 0 THEN counter - 1 ELSE counter

\* What next(_counter) returns
NextOfCounter == counter

\* _new_state(): one call, atomic under the interpreter lock
NewState(i) ==
    /\ frame[i].pc = "nfa"
    /\ frame[i].tokpos <= Len(frame[i].postfix)
    /\ ReachesNewState(frame[i])
    /\ Len(frame[i].fresh) < 2
    /\ LET id == NextOfCounter IN
       /\ counter' = id + 1
       /\ issued' = Append(issued, id)
       /\ SetFrame(i, [frame[i] EXCEPT !.fresh = Append(@, id)])
    /\ UNCHANGED dcounter

\* The rest of the loop body of build_from_postfix for the current token
TokenResult(f) ==
    LET token == Token(f)
        st == f.stack
        n == Len(st)
    IN IF IsAlnum(token)
       THEN Returned(Append(st, SymbolFragment(token, f.fresh[1], f.fresh[2])))
       ELSE IF token = "*"
       THEN IF n < 1 THEN Raised("IndexError", "pop from empty list", -1)
            ELSE Returned(Append(SubSeq(st, 1, n - 1),
                                 StarFragment(st[n], f.fresh[1], f.fresh[2])))
       ELSE IF token = "."
       THEN IF n < 2 THEN Raised("IndexError", "pop from empty list", -1)
            ELSE Returned(Append(SubSeq(st, 1, n - 2), ConcatFragment(st[n - 1], st[n])))
       ELSE IF token = "+"
       THEN IF n < 2 THEN Raised("IndexError", "pop from empty list", -1)
            ELSE Returned(Append(SubSeq(st, 1, n - 2),
                                 UnionFragment(st[n - 1], st[n], f.fresh[1], f.fresh[2])))
       ELSE Raised("ValueError", "Unknown token", -1)

BuildToken(i) ==
    /\ frame[i].pc = "nfa"
    /\ frame[i].tokpos <= Len(frame[i].postfix)
    /\ ReachesNewState(frame[i]) => Len(frame[i].fresh) = 2
    /\ LET f == frame[i]
           r == TokenResult(f)
       IN SetFrame(i, IF r.exc # "none" THEN Fail(f, "nfa", r)
                      ELSE [f EXCEPT !.stack = r.value, !.tokpos = @ + 1,
                                     !.fresh = <<>>])
    /\ UNCHANGED <<counter, dcounter, issued>>

\* return stack[0]
BuildReturn(i) ==
    /\ frame[i].pc = "nfa"
    /\ frame[i].tokpos > Len(frame[i].postfix)
    /\ LET f == frame[i] IN
       SetFrame(i, IF f.stack = <<>>
                   THEN Fail(f, "nfa", Raised("IndexError", "list index out of range", -1))
                   ELSE [f EXCEPT !.pc = "dfa", !.nfa = f.stack[1]])
    /\ UNCHANGED <<counter, dcounter, issued>>

(***************************************************************************)
(* subset_dfa.py                                                           *)
(***************************************************************************)
\* nfa.states.get(s, {}).get(symbol, []), as a set
Dests(nfa, s, symbol) == Range(Get(Get(nfa.states, s, EmptyDict), symbol, <<>>))

\* Mutant: the closure stops after the states one epsilon edge away
epsilon_closure_OneStep(nfa, state_set) ==
    state_set \cup UNION {Dests(nfa, s, EPS) : s \in state_set}

RECURSIVE epsilon_closure(_, _)
\* The set the stack loop ends with: the least superset of state_set closed
\* under the EPS edges.
epsilon_closure(nfa, state_set) ==
    LET more == state_set \cup UNION {Dests(nfa, s, EPS) : s \in state_set} IN
    IF more = state_set THEN state_set ELSE epsilon_closure(nfa, more)

move(nfa, state_set, symbol) == UNION {Dests(nfa, s, symbol) : s \in state_set}

RECURSIVE Sorted(_)
\* sorted(S) for a set of one-character strings
Sorted(S) ==
    IF S = {} THEN <<>>
    ELSE LET lo == CHOOSE c \in S : \A d \in S : Ord(c) <= Ord(d) IN
         <<lo>> \o Sorted(S \ {lo})

\* lines 54-58
NfaAlphabet(nfa) ==
    {sym \in UNION {DOMAIN nfa.states[s] : s \in DOMAIN nfa.states} : sym # EPS}

\* Mutant: a DFA state is final when its NFA-set holds the NFA start state
IsFinalSet_HoldsStart(nfa, T) == nfa.start \in T

\* line 71: nfa.accept in T
IsFinalSet(nfa, T) == nfa.accept \in T

\* What next(_dcounter) returns
NextOfDCounter == dcounter

\* nfa_to_dfa up to its while loop
SubsetStart(i) ==
    /\ frame[i].pc = "dfa"
    /\ LET f == frame[i]
           start_closure == epsilon_closure(f.nfa, {f.nfa.start})
           d == NextOfDCounter
       IN /\ dcounter' = d + 1
          /\ SetFrame(i, [f EXCEPT !.pc = "dfa_loop",
                 !.sub = [alphabet |-> NfaAlphabet(f.nfa),
                          mapping |-> (start_closure :> d),
                          dstates |-> (d :> start_closure),
                          dtrans |-> EmptyDict, dfinal |-> {},
                          q |-> <<start_closure>>, T |-> {}, rest |-> <<>>]])
    /\ UNCHANGED <<counter, issued>>

\* T = q.popleft() and the lines before the for loop
SubsetPop(i) ==
    /\ frame[i].pc = "dfa_loop"
    /\ frame[i].sub.rest = <<>>
    /\ frame[i].sub.q # <<>>
    /\ LET f == frame[i]
           b == f.sub
           T == Head(b.q)
           Td == b.mapping[T]
       IN SetFrame(i, [f EXCEPT !.sub =
              [b EXCEPT !.q = Tail(b.q), !.T = T,
                        !.dtrans = SetDefault(b.dtrans, Td, EmptyDict),
                        !.dfinal = IF IsFinalSet(f.nfa, T) THEN @ \cup {Td} ELSE @,
                        !.rest = Sorted(b.alphabet)]])
    /\ UNCHANGED <<counter, dcounter, issued>>

\* One iteration of "for a in sorted(alphabet)"
SubsetSymbol(i) ==
    /\ frame[i].pc = "dfa_loop"
    /\ frame[i].sub.rest # <<>>
    /\ LET f == frame[i]
           b == f.sub
           a == Head(b.rest)
           Td == b.mapping[b.T]
           moved == move(f.nfa, b.T, a)
           U == epsilon_closure(f.nfa, moved)
           d == NextOfDCounter
       IN IF moved = {}
          THEN /\ SetFrame(i, [f EXCEPT !.sub = [b EXCEPT !.rest = Tail(b.rest)]])
               /\ UNCHANGED dcounter
          ELSE IF U \notin DOMAIN b.mapping
          THEN /\ dcounter' = d + 1
               /\ SetFrame(i, [f EXCEPT !.sub =
                      [b EXCEPT !.rest = Tail(b.rest),
                                !.mapping = @ @@ (U :> d),
                                !.dstates = (d :> U) @@ @,
                                !.q = Append(@, U),
                                !.dtrans = [@ EXCEPT ![Td] = (a :> d) @@ @]]])
          ELSE /\ SetFrame(i, [f EXCEPT !.sub =
                      [b EXCEPT !.rest = Tail(b.rest),
                                !.dtrans = [@ EXCEPT ![Td] = (a :> b.mapping[U]) @@ @]]])
               /\ UNCHANGED dcounter
    /\ UNCHANGED <<counter, issued>>

\* return DFA(...)
SubsetReturn(i) ==
    /\ frame[i].pc = "dfa_loop"
    /\ frame[i].sub.rest = <<>>
    /\ frame[i].sub.q = <<>>
    /\ LET f == frame[i]
           b == f.sub
           dfa == [start |-> b.mapping[epsilon_closure(f.nfa, {f.nfa.start})],
                   states |-> b.dstates, transitions |-> b.dtrans,
                   final_states |-> b.dfinal, alphabet |-> b.alphabet]
       IN SetFrame(i, [f EXCEPT !.pc = "min", !.dfa = dfa, !.hin = dfa])
    /\ UNCHANGED <<counter, dcounter, issued>>

(***************************************************************************)
(* minimizer.py                                                            *)
(***************************************************************************)
\* All the ways to pick one member of every block of P: next(iter(members))
\* is whichever element the set's iteration yields first.
RECURSIVE Representatives(_)
Representatives(P) ==
    IF P = <<>> THEN {<<>>}
    ELSE {<<r>> \o rest : r \in Head(P), rest \in Representatives(Tail(P))}

\* The keys of a list that are not empty: [p for p in P if p]
NonEmpty(P) == SelectSeq(P, LAMBDA p : p # {})

\* line 18: the transition table over the whole alphabet, None where missing
TableOf(dfa, states, alphabet) ==
    [s \in states |->
        [a \in Range(alphabet) |->
            Get(Get(dfa.transitions, s, EmptyDict), a, NoneState)]]

\* Mutant: the dead state is added whether or not a transition is missing
dead_needed_Always(trans, states, alphabet) == TRUE

\* line 22
dead_needed(trans, states, alphabet) ==
    \E s \in states : \E a \in Range(alphabet) : trans[s][a] = NoneState

\* Mutant: the dead state's transitions are left as missing ones
Totalized_DeadLeaks(trans, states, alphabet) ==
    [s \in states \cup {DEAD} |->
        [a \in Range(alphabet) |->
            IF s = DEAD THEN NoneState
            ELSE IF trans[s][a] = NoneState THEN DEAD ELSE trans[s][a]]]

\* lines 23-30: the table with the dead state added and every None redirected
Totalized(trans, states, alphabet) ==
    [s \in states \cup {DEAD} |->
        [a \in Range(alphabet) |->
            IF s = DEAD THEN DEAD
            ELSE IF trans[s][a] = NoneState THEN DEAD ELSE trans[s][a]]]

\* Mutant: the second block is not reduced by the final states
InitialPartition_Overlap(states, finals) == <<finals, states>>

\* Mutant: final and non-final states start in one block
InitialPartition_Unsplit(states, finals) == <<states>>

\* line 32: the initial partition, before the empty blocks are dropped
InitialPartition(states, finals) == <<finals, states \ finals>>

\* hopcroft_minimize up to its while loop
HopStart(i) ==
    /\ frame[i].pc = "min"
    /\ LET f == frame[i]
           dfa == f.hin
           alphabet == Sorted(dfa.alphabet)
           states0 == DOMAIN dfa.states
           trans0 == TableOf(dfa, states0, alphabet)
           dead == dead_needed(trans0, states0, alphabet)
           states == IF dead THEN states0 \cup {DEAD} ELSE states0
           trans == IF dead THEN Totalized(trans0, states0, alphabet) ELSE trans0
           P == NonEmpty(InitialPartition(states, dfa.final_states))
       IN SetFrame(i, [f EXCEPT !.pc = "min_loop",
              !.hop = [alphabet |-> alphabet, states |-> states, trans |-> trans,
                       P |-> P, W |-> P,
                       steps |-> <<[label |-> "Initial partition", symbol |-> "",
                                    partition |-> P]>>,
                       A |-> {}, rest |-> <<>>]])
    /\ UNCHANGED <<counter, dcounter, issued>>

\* Mutant: the block taken from the worklist stays on it
Popleft_Keeps(W) == W

\* W after W.popleft()
Popleft(W) == Tail(W)

\* A = W.popleft()
HopPop(i) ==
    /\ frame[i].pc = "min_loop"
    /\ frame[i].hop.rest = <<>>
    /\ frame[i].hop.W # <<>>
    /\ LET f == frame[i]
           h == f.hop
       IN SetFrame(i, [f EXCEPT !.hop =
              [h EXCEPT !.A = Head(h.W), !.W = Popleft(h.W), !.rest = h.alphabet]])
    /\ UNCHANGED <<counter, dcounter, issued>>

\* Y in W
InList(W, Y) == \E k \in 1..Len(W) : W[k] = Y

\* W.remove(Y): without the first element equal to Y
Remove(W, Y) ==
    LET k == CHOOSE j \in 1..Len(W) : W[j] = Y /\ \A m \in 1..(j - 1) : W[m] # Y IN
    SubSeq(W, 1, k - 1) \o SubSeq(W, k + 1, Len(W))

\* Mutant: a split block that is not on the worklist queues neither half
WorklistAfterSplit_NothingQueued(W, Y, inter, diff) ==
    IF InList(W, Y) THEN Remove(W, Y) \o <<inter, diff>> ELSE W

\* Mutant: a split block that is not on the worklist queues its larger half
WorklistAfterSplit_LargerHalf(W, Y, inter, diff) ==
    IF InList(W, Y) THEN Remove(W, Y) \o <<inter, diff>>
    ELSE IF Cardinality(inter) <= Cardinality(diff) THEN Append(W, diff)
    ELSE Append(W, inter)

\* lines 47-54: the worklist after block Y is split into inter and diff
WorklistAfterSplit(W, Y, inter, diff) ==
    IF InList(W, Y) THEN Remove(W, Y) \o <<inter, diff>>
    ELSE IF Cardinality(inter) <= Cardinality(diff) THEN Append(W, inter)
    ELSE Append(W, diff)

\* line 45: whether Y is split by X
Splits(Y, X) == (Y \cap X) # {} /\ (Y \ X) # {}

\* line 46: what replaces a block that X splits
SplitBlock(Y, X) == <<Y \cap X, Y \ X>>

RECURSIVE RefineFrom(_, _, _, _, _)
\* The loop "for Y in P" from block k on: <<newP, W>> when it ends
RefineFrom(P, k, X, newP, W) ==
    IF k > Len(P) THEN <<newP, W>>
    ELSE LET Y == P[k] IN
         IF Splits(Y, X)
         THEN RefineFrom(P, k + 1, X, newP \o SplitBlock(Y, X),
                         WorklistAfterSplit(W, Y, Y \cap X, Y \ X))
         ELSE RefineFrom(P, k + 1, X, Append(newP, Y), W)

\* line 40: the states whose c-transition lands in A
Preimage(states, trans, c, A) == {q \in states : trans[q][c] \in A}

\* Mutant: an entry is appended after every symbol, split or not
TraceAfter_EverySymbol(steps, P, newP, c) ==
    Append(steps, [label |-> "Refine on symbol", symbol |-> c, partition |-> newP])

\* lines 57-59: the trace after the blocks of P were tried against symbol c
TraceAfter(steps, P, newP, c) ==
    IF newP # P
    THEN Append(steps, [label |-> "Refine on symbol", symbol |-> c, partition |-> newP])
    ELSE steps

\* One iteration of "for c in alphabet"
HopRefine(i) ==
    /\ frame[i].pc = "min_loop"
    /\ frame[i].hop.rest # <<>>
    /\ LET f == frame[i]
           h == f.hop
           c == Head(h.rest)
           X == Preimage(h.states, h.trans, c, h.A)
           r == RefineFrom(h.P, 1, X, <<>>, h.W)
           newP == r[1]
       IN SetFrame(i, [f EXCEPT !.hop =
              [h EXCEPT !.rest = Tail(h.rest), !.W = r[2],
                        !.P = IF newP # h.P THEN newP ELSE h.P,
                        !.steps = TraceAfter(@, h.P, newP, c)]])
    /\ UNCHANGED <<counter, dcounter, issued>>

\* lines 62-68: rep[q], the name of the last block that holds q (block k of
\* the list is named M{k-1})
RepOf(P, q) ==
    LET ks == {k \in 1..Len(P) : q \in P[k]} IN
    (CHOOSE k \in ks : \A j \in ks : j <= k) - 1

\* Mutant: the minimal transition is the block of the representative, not
\* of the representative's target
MinDFAOf_NoStep(dfa, h, reps) ==
    LET P == h.P
        names == 0..(Len(P) - 1)
    IN [start |-> RepOf(P, dfa.start),
        states |-> [n \in names |-> P[n + 1]],
        transitions |-> [n \in names |->
            [a \in Range(h.alphabet) |-> RepOf(P, reps[n + 1])]],
        final_states |-> {RepOf(P, s) : s \in dfa.final_states},
        alphabet |-> Range(h.alphabet)]

\* lines 62-77 with reps[k] the member next(iter(members)) yields for block k
MinDFAOf(dfa, h, reps) ==
    LET P == h.P
        names == 0..(Len(P) - 1)
    IN [start |-> RepOf(P, dfa.start),
        states |-> [n \in names |-> P[n + 1]],
        transitions |-> [n \in names |->
            [a \in Range(h.alphabet) |-> RepOf(P, h.trans[reps[n + 1]][a])]],
        final_states |-> {RepOf(P, s) : s \in dfa.final_states},
        alphabet |-> Range(h.alphabet)]

\* The loop has ended: build the minimized DFA and return it with the steps
HopReturn(i) ==
    /\ frame[i].pc = "min_loop"
    /\ frame[i].hop.rest = <<>>
    /\ frame[i].hop.W = <<>>
    /\ \E reps \in Representatives(frame[i].hop.P) :
          LET f == frame[i]
              m == MinDFAOf(f.hin, f.hop, reps)
          IN SetFrame(i, [f EXCEPT !.pc = IF f.round = 1 THEN "sim" ELSE "redone",
                                   !.min_dfa = m, !.steps = f.hop.steps])
    /\ UNCHANGED <<counter, dcounter, issued>>

\* hopcroft_minimize called on the minimal DFA it returned
Reminimize(i) ==
    /\ frame[i].pc = "sim"
    /\ frame[i].round = 1
    /\ SetFrame(i, [frame[i] EXCEPT !.pc = "min", !.round = 2,
                                    !.first_min = frame[i].min_dfa,
                                    !.hin = frame[i].min_dfa])
    /\ UNCHANGED <<counter, dcounter, issued>>

(***************************************************************************)
(* main.py run, step 5 (gui.py run_pipeline, step 5): string simulation    *)
(***************************************************************************)
\* Mutant: a string that is consumed whole is accepted wherever it ends
Verdict_AlwaysAccepted(min_dfa, current) == "Accepted"

\* lines 103-107: the verdict once the whole string is consumed
Verdict(min_dfa, current) ==
    IF current \in min_dfa.final_states THEN "Accepted" ELSE "Rejected"

RECURSIVE SimulateFrom(_, _, _, _, _)
\* The for loop from character k on, then the verdict
SimulateFrom(min_dfa, teststring, k, current, trace) ==
    IF k > Len(teststring)
    THEN [trace |-> trace, result |-> Verdict(min_dfa, current)]
    ELSE LET ch == teststring[k]
             next_state == Get(Get(min_dfa.transitions, current, EmptyDict), ch, NoneState)
         IN IF next_state = NoneState
            THEN [trace |-> Append(trace, <<current, ch, REJECT>>), result |-> "Rejected"]
            ELSE SimulateFrom(min_dfa, teststring, k + 1, next_state,
                              Append(trace, <<current, ch, next_state>>))

\* Mutant: the empty string is simulated like any other
Simulated_NoEmptyCase(min_dfa, teststring) ==
    SimulateFrom(min_dfa, teststring, 1, min_dfa.start, <<>>)

\* "if teststring:" and its else branch
Simulated(min_dfa, teststring) ==
    IF teststring # <<>>
    THEN SimulateFrom(min_dfa, teststring, 1, min_dfa.start, <<>>)
    ELSE [trace |-> <<>>, result |-> "Rejected (empty input)"]

\* The test strings an invocation on regex may be called with
TestStrings(regex) ==
    IF regex = REGEX THEN GroupTests ELSE SeqsUpTo(TestChars, MaxTestLen)

Simulate(i) ==
    /\ frame[i].pc = "sim"
    /\ \E teststring \in TestStrings(frame[i].regex) :
          SetFrame(i, [frame[i] EXCEPT !.pc = "done", !.teststring = teststring,
                 !.simulation = Simulated(frame[i].min_dfa, teststring)])
    /\ UNCHANGED <<counter, dcounter, issued>>

\* One invocation, every step of the pipeline
Next ==
    \E i \in Inv :
        \/ ParseRegex(i)
        \/ NewState(i)
        \/ BuildToken(i)
        \/ BuildReturn(i)
        \/ SubsetStart(i)
        \/ SubsetPop(i)
        \/ SubsetSymbol(i)
        \/ SubsetReturn(i)
        \/ HopStart(i)
        \/ HopPop(i)
        \/ HopRefine(i)
        \/ HopReturn(i)
        \/ Simulate(i)
        \/ Reminimize(i)

Spec == Init /\ [][Next]_vars

\* Two invocations through the stages that call _new_state and _new_dstate,
\* in every interleaving of their steps.  The stages after nfa_to_dfa read
\* and write only their own locals.
NextConc ==
    \E i \in Inv :
        \/ ParseRegex(i)
        \/ NewState(i)
        \/ BuildToken(i)
        \/ BuildReturn(i)
        \/ SubsetStart(i)
        \/ SubsetPop(i)
        \/ SubsetSymbol(i)
        \/ SubsetReturn(i)

SpecConc == InitConc /\ [][NextConc]_vars

\* An invocation that is inside hopcroft_minimize's loop takes its next
\* step: the call runs on its thread until it returns.
SpecLive ==
    /\ Init
    /\ [][Next]_vars
    /\ \A i \in Inv : WF_vars(HopPop(i) \/ HopRefine(i) \/ HopReturn(i))

(***************************************************************************)
(* Vocabulary of the properties.                                           *)
(***************************************************************************)
\* Invocation frames that hold a built NFA, and the first minimal DFA
HasNfa(f) == f.pc \in {"dfa", "dfa_loop", "min", "min_loop", "sim", "done", "redone"}
HasDfa(f) == f.pc \in {"min", "min_loop", "sim", "done", "redone"}
HasFirstMin(f) == f.round = 1 /\ f.pc \in {"sim", "done"}
HasSecondMin(f) == f.pc = "redone"

RECURSIVE DfaRun(_, _, _, _)
\* The state a deterministic automaton is in after reading s[k..] from
\* current; NoneState once a transition is missing
DfaRun(dfa, s, k, current) ==
    IF k > Len(s) \/ current = NoneState THEN current
    ELSE DfaRun(dfa, s, k + 1,
                Get(Get(dfa.transitions, current, EmptyDict), s[k], NoneState))

DfaAccepts(dfa, s) == DfaRun(dfa, s, 1, dfa.start) \in dfa.final_states

RECURSIVE NfaRun(_, _, _, _)
\* The epsilon-closed set of NFA states reachable by reading s[k..] from S
NfaRun(nfa, s, k, S) ==
    IF k > Len(s) THEN S
    ELSE NfaRun(nfa, s, k + 1, epsilon_closure(nfa, move(nfa, S, s[k])))

NfaAccepts(nfa, s) ==
    nfa.accept \in NfaRun(nfa, s, 1, epsilon_closure(nfa, {nfa.start}))

\* The blocks of a minimal DFA, as a set of sets
Blocks(m) == {m.states[n] : n \in DOMAIN m.states}

\* Whether the DFA misses a transition on some symbol of its alphabet
IsPartial(dfa) ==
    \E s \in DOMAIN dfa.states : \E a \in dfa.alphabet :
        a \notin DOMAIN Get(dfa.transitions, s, EmptyDict)

RECURSIVE Distinguished(_, _)
\* The pairs of states of m that some string tells apart, from the pairs D
\* already told apart: a pair joins when one symbol leads it into D
Distinguished(m, D) ==
    LET more == D \cup {pq \in (DOMAIN m.states) \X (DOMAIN m.states) :
                          \E a \in m.alphabet :
                              <<m.transitions[pq[1]][a], m.transitions[pq[2]][a]>> \in D}
    IN IF more = D THEN D ELSE Distinguished(m, more)

\* The pairs the empty string tells apart: one final, the other not
FinalityDiffers(m) ==
    {pq \in (DOMAIN m.states) \X (DOMAIN m.states) :
        (pq[1] \in m.final_states) # (pq[2] \in m.final_states)}

(***************************************************************************)
(* Properties.                                                             *)
(***************************************************************************)
\* C1: for every test string over the alphabet, the empty one included, the
\* simulator's verdict on the minimal DFA is Accepted iff the DFA run from
\* its start ends in a final state iff the NFA accepts the string.
C1_AcceptanceAgrees ==
    \A i \in Inv :
        LET f == frame[i] IN
        (f.pc = "done" /\ Range(f.teststring) \subseteq f.dfa.alphabet) =>
            /\ (f.simulation.result = "Accepted") = DfaAccepts(f.dfa, f.teststring)
            /\ DfaAccepts(f.dfa, f.teststring) = NfaAccepts(f.nfa, f.teststring)

\* C2: in the minimal DFA of a subset-construction DFA, every two distinct
\* states are told apart by some string over the alphabet.
C2_NoTwoStatesEquivalent ==
    \A i \in Inv :
        LET f == frame[i]
            m == f.min_dfa
        IN HasFirstMin(f) =>
              {pq \in (DOMAIN m.states) \X (DOMAIN m.states) : pq[1] # pq[2]}
                  \subseteq Distinguished(m, FinalityDiffers(m))

C2_Witness ==
    \E i \in Inv :
        LET f == frame[i] IN
        /\ HasFirstMin(f)
        /\ Cardinality(DOMAIN f.min_dfa.states) >= 3
        /\ Cardinality(DOMAIN f.min_dfa.states) < Cardinality(f.hop.states)

\* C3 as stated: the blocks of the minimal DFA are non-empty, pairwise
\* disjoint, and their union is the set of state ids of the input DFA.
C3_BlocksPartitionDfaStates ==
    \A i \in Inv :
        LET f == frame[i]
            m == f.min_dfa
        IN HasFirstMin(f) =>
              /\ \A n \in DOMAIN m.states : m.states[n] # {}
              /\ \A n1, n2 \in DOMAIN m.states :
                     n1 # n2 => m.states[n1] \cap m.states[n2] = {}
              /\ UNION Blocks(m) = DOMAIN f.dfa.states

\* C3 amended: the blocks are non-empty, pairwise disjoint, and their union
\* is the set of state ids of the input DFA, plus the dead state when the
\* input DFA is partial.
C3_BlocksPartitionTotalizedStates ==
    \A i \in Inv :
        LET f == frame[i]
            m == f.min_dfa
        IN HasFirstMin(f) =>
              /\ \A n \in DOMAIN m.states : m.states[n] # {}
              /\ \A n1, n2 \in DOMAIN m.states :
                     n1 # n2 => m.states[n1] \cap m.states[n2] = {}
              /\ UNION Blocks(m) =
                     DOMAIN f.dfa.states \cup (IF IsPartial(f.dfa) THEN {DEAD} ELSE {})

C3_Witness ==
    \E i \in Inv :
        LET f == frame[i] IN
        /\ HasFirstMin(f)
        /\ IsPartial(f.dfa)
        /\ DEAD \in UNION Blocks(f.min_dfa)
        /\ \E b \in Blocks(f.min_dfa) : Cardinality(b) >= 2
        /\ Len(f.steps) >= 3

\* C4: no block ever mixes final and non-final states during refinement;
\* the minimal final set is exactly the blocks that contain a DFA final
\* state, each holding final states only; the minimal start state is the
\* block of the DFA start state.
C4_FinalityPreserved ==
    \A i \in Inv :
        LET f == frame[i]
            m == f.min_dfa
            F == f.dfa.final_states
        IN /\ (f.round = 1 /\ f.pc = "min_loop") =>
                  \A k \in 1..Len(f.hop.P) :
                      f.hop.P[k] \subseteq F \/ f.hop.P[k] \cap F = {}
           /\ HasFirstMin(f) =>
                  /\ m.final_states = {n \in DOMAIN m.states : m.states[n] \cap F # {}}
                  /\ \A n \in m.final_states : m.states[n] \subseteq F
                  /\ f.dfa.start \in m.states[m.start]

C4_Witness ==
    \E i \in Inv :
        LET f == frame[i]
            m == f.min_dfa
        IN /\ HasFirstMin(f)
           /\ \E n \in m.final_states : Cardinality(m.states[n]) >= 2
           /\ Cardinality(DOMAIN m.states \ m.final_states) >= 2
           /\ Len(f.steps) >= 2

\* C5: minimizing a minimal DFA that hopcroft_minimize returned ends with
\* one block per state: as many states as the input, none merged.
C5_ReminimizeIsIdentity ==
    \A i \in Inv :
        LET f == frame[i] IN
        f.pc = "redone" =>
            /\ Len(f.hop.P) = Cardinality(DOMAIN f.first_min.states)
            /\ \A k \in 1..Len(f.hop.P) : Cardinality(f.hop.P[k]) = 1
            /\ Range(f.hop.P) = {{n} : n \in DOMAIN f.first_min.states}
            /\ Cardinality(DOMAIN f.min_dfa.states) =
                   Cardinality(DOMAIN f.first_min.states)

C5_Witness ==
    \E i \in Inv :
        LET f == frame[i] IN
        /\ f.pc = "redone"
        /\ Cardinality(DOMAIN f.first_min.states) >= 4
        /\ Len(f.steps) >= 2

\* C6: for the empty input the verdict is 'Rejected (empty input)' and the
\* trace is empty, whether or not the minimal start state is final.
C6_EmptyInputRejected ==
    \A i \in Inv :
        LET f == frame[i] IN
        (f.pc = "done" /\ f.teststring = <<>>) =>
            /\ f.simulation.result = "Rejected (empty input)"
            /\ f.simulation.trace = <<>>

C6_Witness ==
    \E i \in Inv :
        LET f == frame[i] IN
        /\ f.pc = "done"
        /\ f.teststring = <<>>
        /\ f.min_dfa.start \in f.min_dfa.final_states
        /\ f.simulation.result = "Rejected (empty input)"

\* C7: on "ggh + m(pg + gg + ggg)*m + hg" the pipeline reports ggh, mpgm
\* and mm Accepted, mpm Rejected and the empty string Rejected (empty input).
C7_GroupRegexVerdicts ==
    \A i \in Inv :
        LET f == frame[i]
            t == f.teststring
        IN (f.regex = REGEX => f.pc # "failed")
           /\ ((f.regex = REGEX /\ f.pc = "done") =>
                 /\ t = <<"g", "g", "h">> => f.simulation.result = "Accepted"
                 /\ t = <<"m", "p", "g", "m">> => f.simulation.result = "Accepted"
                 /\ t = <<"m", "m">> => f.simulation.result = "Accepted"
                 /\ t = <<"m", "p", "m">> => f.simulation.result = "Rejected"
                 /\ t = <<>> => f.simulation.result = "Rejected (empty input)")

C7_Witness ==
    \E i \in Inv :
        LET f == frame[i] IN
        /\ f.regex = REGEX
        /\ f.pc = "done"
        /\ f.teststring = <<"m", "p", "g", "m">>
        /\ f.simulation.result = "Accepted"
        /\ Len(f.simulation.trace) = 4

\* C8: building the same postfix twice (and the same NFA into a DFA), one
\* after the other or interleaved, assigns the same state labels both times.
C8_SameLabelsInBothRuns ==
    \A i, j \in Inv :
        LET f == frame[i]
            g == frame[j]
        IN /\ (HasNfa(f) /\ HasNfa(g) /\ f.postfix = g.postfix) => f.nfa = g.nfa
           /\ (HasDfa(f) /\ HasDfa(g) /\ f.postfix = g.postfix) =>
                  DOMAIN f.dfa.states = DOMAIN g.dfa.states

\* C9: no NFA state id is allocated twice, by one construction or by two;
\* the state maps of the fragments on a stack share no key, and neither do
\* the NFAs of two invocations.
C9_NoIdAllocatedTwice ==
    /\ \A k, l \in 1..Len(issued) : k # l => issued[k] # issued[l]
    /\ \A i \in Inv :
           \A k, l \in 1..Len(frame[i].stack) :
               k # l => DOMAIN frame[i].stack[k].states
                            \cap DOMAIN frame[i].stack[l].states = {}
    /\ \A i, j \in Inv :
           (i # j /\ HasNfa(frame[i]) /\ HasNfa(frame[j])) =>
               DOMAIN frame[i].nfa.states \cap DOMAIN frame[j].nfa.states = {}

C9_Witness ==
    /\ \A i \in Inv : HasNfa(frame[i]) /\ frame[i].postfix = <<"a", "a", ".">>
    /\ DOMAIN frame[1].nfa.states = {0, 2, 5, 6}
    /\ DOMAIN frame[2].nfa.states = {1, 3, 4, 7}

\* C10: a stage that raises leaves every process-wide value, the state-id
\* counters included, as it was before the call.
C10_FailureChangesNothingShared ==
    \A i \in Inv :
        LET f == frame[i] IN
        f.pc = "failed" => counter = f.counter0 /\ dcounter = 0

(***************************************************************************)
(* Vocabulary of the parser properties.                                    *)
(***************************************************************************)
\* Invocations whose call of to_postfix has ended
Parsed(f) == f.pc \notin {"off", "parse"}

\* The positions of regex before k that hold a non-space character
NonSpaceBefore(regex, k) == {j \in 1..(k - 1) : regex[j] # " "}

\* The non-space character nearest before position k, None when there is none
PrevNonSpace(regex, k) ==
    LET js == NonSpaceBefore(regex, k) IN
    IF js = {} THEN None ELSE regex[CHOOSE j \in js : \A m \in js : m <= j]

\* Position k holds '+' or '*' that is the first non-space character or
\* follows '+' or '('
OffendingOperator(regex, k) ==
    /\ regex[k] \in {"+", "*"}
    /\ PrevNonSpace(regex, k) \in {None, "+", "("}

\* How many positions of regex before k hold character c
CountBefore(regex, k, c) == Cardinality({j \in 1..(k - 1) : regex[j] = c})

\* Position j breaks a rule of the scan: a ')' with no '(' open, a misplaced
\* or repeated operator, or a character that is no symbol
Fault(regex, j) ==
    \/ regex[j] = ")" /\ CountBefore(regex, j, "(") <= CountBefore(regex, j, ")")
    \/ OffendingOperator(regex, j)
    \/ regex[j] = "*" /\ PrevNonSpace(regex, j) = "*"
    \/ regex[j] \notin {" ", "(", ")", "+", "*"} /\ ~IsAlnum(regex[j])

\* The message of the error raised for operator c
InvalidUseOf(c) == IF c = "+" THEN "Invalid use of '+'" ELSE "Invalid use of '*'"

(***************************************************************************)
(* Properties of the parser and of the NFA builder.                        *)
(***************************************************************************)
\* C11: for every regex that validate accepts, build_from_postfix raises
\* nothing (no operator pops an empty stack, return stack[0] finds a
\* fragment) and when all tokens are processed exactly one fragment is on
\* the stack, the one whose start and accept are the NFA's.
C11_BuildLeavesOneFragment ==
    \A i \in Inv :
        LET f == frame[i] IN
        /\ f.pc = "failed" => f.stage # "nfa"
        /\ (f.pc = "nfa" /\ f.tokpos > Len(f.postfix)) => Len(f.stack) = 1
        /\ HasNfa(f) => Len(f.stack) = 1 /\ f.nfa = f.stack[1]

\* C12: for every input, the empty and the all-space string included,
\* validate returns or raises the parser's syntax error (ValueError in the
\* code) with a description, and fails in no other way.
C12_ValidateOkOrSyntaxError ==
    \A i \in Inv :
        LET f == frame[i]
            v == validate_regex(f.regex)
        IN Parsed(f) =>
              /\ v.exc \in {"none", "ValueError"}
              /\ v.exc = "ValueError" => v.msg # ""

\* C13 as stated: whenever some '+' or '*' is the first non-space character
\* or follows '+' or '(', validate raises the invalid-use error of such an
\* operator at its index; "a++b" raises invalid use of '+' at index 2.
C13_InvalidUseAlwaysCited ==
    \A i \in Inv :
        LET f == frame[i]
            v == validate_regex(f.regex)
            ks == {k \in 1..Len(f.regex) : OffendingOperator(f.regex, k)}
        IN (Parsed(f) /\ ks # {}) =>
              /\ v.exc = "ValueError"
              /\ \E k \in ks : v.msg = InvalidUseOf(f.regex[k]) /\ v.pos = k - 1

\* C13 amended: when such an operator stands at index k and no character
\* before it breaks a rule of the scan, validate raises the invalid-use
\* error of that operator at index k; "a++b" raises invalid use of '+' at
\* index 2.
C13_FirstInvalidUseCited ==
    \A i \in Inv :
        LET f == frame[i]
            v == validate_regex(f.regex)
        IN Parsed(f) =>
              /\ \A k \in 1..Len(f.regex) :
                     (/\ OffendingOperator(f.regex, k)
                      /\ \A j \in 1..(k - 1) : ~Fault(f.regex, j)) =>
                         /\ v.exc = "ValueError"
                         /\ v.msg = InvalidUseOf(f.regex[k])
                         /\ v.pos = k - 1
                         /\ f.pc = "failed" /\ f.stage = "parse" /\ f.failed = v
              /\ f.regex = <<"a", "+", "+", "b">> =>
                     v = Raised("ValueError", "Invalid use of '+'", 2)

C13_Witness ==
    \E i \in Inv :
        LET f == frame[i] IN
        /\ f.regex = <<"a", "+", "+", "b">>
        /\ f.pc = "failed"
        /\ f.stage = "parse"
        /\ f.failed.msg = "Invalid use of '+'"
        /\ f.failed.pos = 2

\* The regex without its spaces
Stripped(regex) == SelectSeq(regex, LAMBDA c : c # " ")

\* s[j] and s[j + 1] are a pair a concatenation operator belongs between
ConcatPair(s, j) ==
    /\ j < Len(s)
    /\ (IsAlnum(s[j]) \/ s[j] \in {"*", ")"})
    /\ (IsAlnum(s[j + 1]) \/ s[j + 1] = "(")

\* How many such pairs start before position k of s
PairsBefore(s, k) == Cardinality({j \in 1..(k - 1) : ConcatPair(s, j)})

\* How many positions of sequence t hold character c
Count(t, c) == Cardinality({k \in 1..Len(t) : t[k] = c})

\* C14: for a regex that validate accepts, to_postfix returns, and returns
\* the same postfix whenever it is evaluated; add_concat's output is the
\* stripped regex with '.' exactly between the adjacent pairs (alnum, '*'
\* or ')' on the left, alnum or '(' on the right); the postfix has as many
\* tokens as the regex has symbols, explicit operators and inserted
\* operators, holds no parenthesis, and holds every other token as often as
\* add_concat's output does.
C14_PostfixKeepsEveryToken ==
    \A i \in Inv :
        LET f == frame[i]
            s == Stripped(f.regex)
            e == add_concat(f.regex)
            n == PairsBefore(s, Len(s))
        IN (Parsed(f) /\ validate_regex(f.regex).exc = "none") =>
              /\ ~(f.pc = "failed" /\ f.stage = "parse")
              /\ f.postfix = to_postfix(f.regex).value
              /\ Len(e) = Len(s) + n
              /\ \A k \in 1..Len(s) : e[k + PairsBefore(s, k)] = s[k]
              /\ \A k \in 1..Len(s) :
                     ConcatPair(s, k) => e[k + PairsBefore(s, k) + 1] = "."
              /\ Len(f.postfix) =
                     Cardinality({k \in 1..Len(s) : IsAlnum(s[k])})
                       + Cardinality({k \in 1..Len(s) : s[k] \in {"+", "*"}}) + n
              /\ Count(f.postfix, "(") = 0 /\ Count(f.postfix, ")") = 0
              /\ \A c \in (Range(e) \cup Range(f.postfix)) \ {"(", ")"} :
                     Count(f.postfix, c) = Count(e, c)

C14_Witness ==
    \E i \in Inv :
        LET f == frame[i] IN
        /\ Parsed(f)
        /\ validate_regex(f.regex).exc = "none"
        /\ " " \in Range(f.regex)
        /\ "*" \in Range(f.regex)
        /\ Count(f.postfix, ".") = 1
        /\ Len(f.postfix) = 4

\* The number of states of a fragment
NumStates(n) == Cardinality(DOMAIN n.states)

\* The edges of a fragment: state, symbol and place in the destination list
Edges(n) ==
    UNION {UNION {{<<q, sym, k>> : k \in 1..Len(n.states[q][sym])} :
                     sym \in DOMAIN n.states[q]} : q \in DOMAIN n.states}

\* The number of epsilon edges and of symbol edges of a fragment
EpsEdges(n) == Cardinality({e \in Edges(n) : e[2] = EPS})
SymEdges(n) == Cardinality({e \in Edges(n) : e[2] # EPS})

\* Fragment n has every state of fragment op and, for each, every edge of
\* op in the same order at the front of its destination list
Keeps(op, n) ==
    \A q \in DOMAIN op.states :
        /\ q \in DOMAIN n.states
        /\ \A sym \in DOMAIN op.states[q] :
               LET old == op.states[q][sym]
                   new == Get(n.states[q], sym, <<>>)
               IN Len(old) <= Len(new) /\ SubSeq(new, 1, Len(old)) = old

\* A fragment has one start and one accept state, both among its states
OneStartOneAccept(n) ==
    /\ n.start \in DOMAIN n.states
    /\ n.accept \in DOMAIN n.states
    /\ n.start # n.accept

\* What one handled token of build_from_postfix did to the stack st, giving
\* stack st2
TokenStepFixed(token, st, st2) ==
    LET new == st2[Len(st2)]
        n == Len(st)
    IN /\ OneStartOneAccept(new)
       /\ IsAlnum(token) =>
             /\ st2 = Append(st, new)
             /\ NumStates(new) = 2
             /\ SymEdges(new) = 1 /\ EpsEdges(new) = 0
             /\ Get(new.states[new.start], token, <<>>) = <<new.accept>>
       /\ token = "*" =>
             /\ SubSeq(st2, 1, Len(st2) - 1) = SubSeq(st, 1, n - 1)
             /\ NumStates(new) = NumStates(st[n]) + 2
             /\ EpsEdges(new) = EpsEdges(st[n]) + 4
             /\ SymEdges(new) = SymEdges(st[n])
             /\ Keeps(st[n], new)
       /\ token = "+" =>
             /\ SubSeq(st2, 1, Len(st2) - 1) = SubSeq(st, 1, n - 2)
             /\ NumStates(new) = NumStates(st[n - 1]) + NumStates(st[n]) + 2
             /\ EpsEdges(new) = EpsEdges(st[n - 1]) + EpsEdges(st[n]) + 4
             /\ SymEdges(new) = SymEdges(st[n - 1]) + SymEdges(st[n])
             /\ Keeps(st[n - 1], new) /\ Keeps(st[n], new)
       /\ token = "." =>
             /\ SubSeq(st2, 1, Len(st2) - 1) = SubSeq(st, 1, n - 2)
             /\ NumStates(new) = NumStates(st[n - 1]) + NumStates(st[n])
             /\ EpsEdges(new) = EpsEdges(st[n - 1]) + EpsEdges(st[n]) + 1
             /\ SymEdges(new) = SymEdges(st[n - 1]) + SymEdges(st[n])
             /\ Keeps(st[n - 1], new) /\ Keeps(st[n], new)
             /\ new.start = st[n - 1].start /\ new.accept = st[n].accept

\* C15: every token build_from_postfix handles changes the automaton by the
\* fixed amount of its kind (symbol: 2 states, 1 symbol edge; star and
\* union: 2 more states and 4 more epsilon edges; concatenation: no more
\* states and 1 more epsilon edge), keeping every state and edge of its
\* operands; every fragment pushed and every NFA returned has one start and
\* one accept state.
C15_FixedConstructionSteps ==
    [][\A i \in Inv :
          LET f == frame[i]
              g == frame'[i]
          IN /\ (f.pc = "nfa" /\ g.pc = "nfa" /\ g.tokpos = f.tokpos + 1) =>
                    TokenStepFixed(Token(f), f.stack, g.stack)
             /\ (f.pc = "nfa" /\ g.pc = "dfa") =>
                    g.nfa = f.stack[1] /\ OneStartOneAccept(g.nfa)]_vars

C15_Witness ==
    \E i \in Inv :
        LET f == frame[i] IN
        /\ f.pc = "nfa"
        /\ f.tokpos = 5
        /\ f.postfix = <<"a", "b", "*", "+">>
        /\ Len(f.stack) = 1
        /\ NumStates(f.stack[1]) = 8
        /\ EpsEdges(f.stack[1]) = 8
        /\ SymEdges(f.stack[1]) = 2

(***************************************************************************)
(* Properties of the subset construction.                                  *)
(***************************************************************************)
\* The states an edge labelled sym leads to from a state of S
Successors(nfa, S, sym) ==
    {t \in DOMAIN nfa.states :
        \E q \in S \cap DOMAIN nfa.states :
            /\ sym \in DOMAIN nfa.states[q]
            /\ \E k \in 1..Len(nfa.states[q][sym]) : nfa.states[q][sym][k] = t}

RECURSIVE EpsReach(_, _)
\* The states reachable from S along epsilon edges only
EpsReach(nfa, S) ==
    LET more == S \cup Successors(nfa, S, EPS) IN
    IF more = S THEN S ELSE EpsReach(nfa, more)

RECURSIVE ReachAfter(_, _, _, _)
\* The states the NFA can be in after reading s[k..] from the states S
ReachAfter(nfa, s, k, S) ==
    IF k > Len(s) THEN S
    ELSE ReachAfter(nfa, s, k + 1, EpsReach(nfa, Successors(nfa, S, s[k])))

\* Whether the NFA can reach its accept state by reading s
NfaReachesAccept(nfa, s) ==
    nfa.accept \in ReachAfter(nfa, s, 1, EpsReach(nfa, {nfa.start}))

\* The strings the DFA is compared with the NFA on
ProbeStrings(dfa) ==
    SeqsUpTo(dfa.alphabet, MaxTestLen)
        \cup {t \in GroupTests : Range(t) \subseteq dfa.alphabet}

\* C16: in every DFA nfa_to_dfa returns (and while it is built), distinct
\* DFA states have distinct NFA-sets; in the returned DFA a state is final
\* iff its NFA-set contains the NFA accept state.
C16_StatesDistinctFinalIffAccept ==
    \A i \in Inv :
        LET f == frame[i]
            dfa == f.dfa
        IN /\ f.pc = "dfa_loop" =>
                 \A d1, d2 \in DOMAIN f.sub.dstates :
                     d1 # d2 => f.sub.dstates[d1] # f.sub.dstates[d2]
           /\ HasDfa(f) =>
                 /\ \A d1, d2 \in DOMAIN dfa.states :
                        d1 # d2 => dfa.states[d1] # dfa.states[d2]
                 /\ dfa.final_states \subseteq DOMAIN dfa.states
                 /\ \A d \in DOMAIN dfa.states :
                        d \in dfa.final_states <=> f.nfa.accept \in dfa.states[d]

C16_Witness ==
    \E i \in Inv :
        LET f == frame[i] IN
        /\ HasDfa(f)
        /\ Cardinality(DOMAIN f.dfa.states) >= 3
        /\ Cardinality(f.dfa.final_states) >= 2
        /\ f.dfa.start \notin f.dfa.final_states
        /\ \E d \in f.dfa.final_states : Cardinality(f.dfa.states[d]) >= 3

\* C17: the returned DFA's start state has the epsilon-closure of
\* {nfa.start} as its NFA-set; a recorded transition from NFA-set T on a
\* leads to the state whose NFA-set is the closure of the a-successors of T,
\* and one is missing only when T has no a-successor; for every string, the
\* empty one included, the DFA ends in a final state iff the NFA can reach
\* its accept state.
C17_DfaEquivalentToNfa ==
    \A i \in Inv :
        LET f == frame[i]
            dfa == f.dfa
            nfa == f.nfa
        IN (f.pc = "min" /\ f.round = 1) =>
              /\ dfa.states[dfa.start] = EpsReach(nfa, {nfa.start})
              /\ \A d \in DOMAIN dfa.states : \A a \in dfa.alphabet :
                     LET moved == Successors(nfa, dfa.states[d], a)
                         row == Get(dfa.transitions, d, EmptyDict)
                     IN IF a \in DOMAIN row
                        THEN /\ row[a] \in DOMAIN dfa.states
                             /\ dfa.states[row[a]] = EpsReach(nfa, moved)
                        ELSE moved = {}
              /\ \A s \in ProbeStrings(dfa) :
                     DfaAccepts(dfa, s) <=> NfaReachesAccept(nfa, s)

C17_Witness ==
    \E i \in Inv :
        LET f == frame[i] IN
        /\ f.pc = "min" /\ f.round = 1
        /\ IsPartial(f.dfa)
        /\ f.dfa.start \in f.dfa.final_states
        /\ Cardinality(DOMAIN f.dfa.states) >= 3
        /\ DfaAccepts(f.dfa, <<>>)
        /\ \E s \in ProbeStrings(f.dfa) : Len(s) = 2 /\ ~DfaAccepts(f.dfa, s)

(***************************************************************************)
(* Properties of the minimizer.                                            *)
(***************************************************************************)
\* The refinement loop of an invocation has ended: at its exit, or later
\* with the loop's locals still in the frame
LoopEnded(f) ==
    \/ f.pc = "min_loop" /\ f.hop.W = <<>> /\ f.hop.rest = <<>>
    \/ f.pc \in {"sim", "done", "redone"}

\* States x and y are in one block of partition P
SameBlock(P, x, y) == \E k \in 1..Len(P) : x \in P[k] /\ y \in P[k]

\* C18: when the refinement loop has ended, any two members of a block go,
\* on every alphabet symbol, to targets of the totalized table that lie in
\* one block; the minimal transition function is the same for every choice
\* of the blocks' representatives.
C18_FinalPartitionStable ==
    \A i \in Inv :
        LET f == frame[i]
            h == f.hop
        IN LoopEnded(f) =>
              /\ \A k \in 1..Len(h.P) : \A q1, q2 \in h.P[k] :
                     \A c \in Range(h.alphabet) :
                         SameBlock(h.P, h.trans[q1][c], h.trans[q2][c])
              /\ \A r1, r2 \in Representatives(h.P) :
                     MinDFAOf(f.hin, h, r1).transitions
                         = MinDFAOf(f.hin, h, r2).transitions

C18_Witness ==
    \E i \in Inv :
        LET f == frame[i] IN
        /\ f.pc = "sim"
        /\ Len(f.steps) >= 3
        /\ Cardinality(Representatives(f.hop.P)) >= 4
        /\ \E k \in 1..Len(f.hop.P) :
               Cardinality(f.hop.P[k]) >= 2 /\ DEAD \notin f.hop.P[k]

\* hopcroft_minimize is past its preprocessing, with its locals in the frame
Preprocessed(f) == f.pc \in {"min_loop", "sim", "done", "redone"}

\* The table gives every state exactly one target per alphabet symbol
TotalOver(trans, states, alphabet) ==
    /\ DOMAIN trans = states
    /\ \A s \in states :
           /\ DOMAIN trans[s] = alphabet
           /\ \A a \in alphabet : trans[s][a] \in states

\* C19: if the input DFA lacks a transition, the refined state set is the
\* DFA's plus one dead state that loops to itself on every symbol, every
\* missing transition goes to it and every recorded one is kept; if the DFA
\* is total, nothing is added; either way the table is total throughout
\* refinement, and so is the transition map of the minimal DFA returned.
C19_DeadStateTotalizes ==
    \A i \in Inv :
        LET f == frame[i]
            h == f.hop
            dfa == f.hin
            m == f.min_dfa
            Q == DOMAIN dfa.states
        IN /\ Preprocessed(f) =>
                 /\ DEAD \notin Q
                 /\ Range(h.alphabet) = dfa.alphabet
                 /\ h.states = (IF IsPartial(dfa) THEN Q \cup {DEAD} ELSE Q)
                 /\ TotalOver(h.trans, h.states, dfa.alphabet)
                 /\ DEAD \in h.states =>
                        \A a \in dfa.alphabet : h.trans[DEAD][a] = DEAD
                 /\ \A s \in Q : \A a \in dfa.alphabet :
                        LET row == Get(dfa.transitions, s, EmptyDict) IN
                        h.trans[s][a] = (IF a \in DOMAIN row THEN row[a] ELSE DEAD)
           /\ f.pc \in {"sim", "done", "redone"} =>
                 TotalOver(m.transitions, DOMAIN m.states, m.alphabet)

C19_Witness ==
    \E i \in Inv :
        LET f == frame[i] IN
        /\ f.pc = "min_loop"
        /\ f.round = 1
        /\ Len(f.hop.steps) >= 2
        /\ DEAD \in f.hop.states
        /\ Cardinality(f.hop.states) >= 4
        /\ \E s \in DOMAIN f.hin.states :
               LET row == Get(f.hin.transitions, s, EmptyDict) IN
               DOMAIN row # {} /\ DOMAIN row # f.hin.alphabet

\* Every block of partition P2 lies within one block of partition P1
RefinedFrom(P1, P2) ==
    \A k \in 1..Len(P2) : \E j \in 1..Len(P1) : P2[k] \subseteq P1[j]

\* C20: the refinement loop ends, and ends with the worklist empty; while it
\* runs, a step only splits blocks (every block after the step lies within
\* one block before it, and there are at least as many), and the blocks are
\* non-empty and never more than the states being refined.
C20_RefinementTerminates ==
    /\ \A i \in Inv : (frame[i].pc = "min_loop") ~> (frame[i].pc # "min_loop")
    /\ [][\A i \in Inv :
             LET f == frame[i]
                 g == frame'[i]
             IN /\ (f.pc = "min_loop" /\ g.pc = "min_loop") =>
                       /\ RefinedFrom(f.hop.P, g.hop.P)
                       /\ Len(g.hop.P) >= Len(f.hop.P)
                       /\ g.hop.states = f.hop.states
                /\ (f.pc = "min_loop" /\ g.pc # "min_loop") =>
                       f.hop.W = <<>> /\ f.hop.rest = <<>>]_vars
    /\ [](\A i \in Inv :
             LET h == frame[i].hop IN
             frame[i].pc = "min_loop" =>
                /\ \A k \in 1..Len(h.P) : h.P[k] # {}
                /\ Len(h.P) <= Cardinality(h.states)
                /\ UNION Range(h.P) = h.states)

C20_Witness ==
    \E i \in Inv :
        LET f == frame[i] IN
        /\ f.pc = "sim"
        /\ f.hop.W = <<>>
        /\ Len(f.hop.steps) >= 3
        /\ Len(f.hop.P) >= 4
        /\ Len(f.hop.P) < Cardinality(f.hop.states)

(***************************************************************************)
(* Properties of the refinement trace and of the worklist.                 *)
(***************************************************************************)
\* The trace of an invocation: the loop's while it runs, the returned one
\* after
TraceOf(f) == IF f.pc = "min_loop" THEN f.hop.steps ELSE f.steps

\* Snapshot k of the trace is the one before it with some block split
StrictlyRefines(steps, k) ==
    /\ RefinedFrom(steps[k - 1].partition, steps[k].partition)
    /\ Len(steps[k].partition) > Len(steps[k - 1].partition)

\* What holds of the trace whichever way its entries are counted: it starts
\* with the initial partition, every later entry is labelled with an
\* alphabet symbol and strictly refines the one before, and the last
\* snapshot is the current (at the end: the final) partition.
TraceShape(f) ==
    LET t == TraceOf(f) IN
    /\ Len(t) >= 1
    /\ t[1].label = "Initial partition"
    /\ t[1].partition = NonEmpty(InitialPartition(f.hop.states, f.hin.final_states))
    /\ \A k \in 2..Len(t) :
           /\ t[k].label = "Refine on symbol"
           /\ t[k].symbol \in f.hin.alphabet
           /\ StrictlyRefines(t, k)
    /\ t[Len(t)].partition = f.hop.P

\* The number of block splits performed so far: every split adds one block
SplitsPerformed(f) == Len(f.hop.P) - Len(TraceOf(f)[1].partition)

\* C21 as stated: the trace has the shape above and gains one entry per
\* split of a block, so the entries after the first are as many as the
\* splits performed.
C21_OneEntryPerSplit ==
    \A i \in Inv :
        LET f == frame[i] IN
        Preprocessed(f) =>
            /\ TraceShape(f)
            /\ Len(TraceOf(f)) - 1 = SplitsPerformed(f)

\* C21 amended: the trace has the shape above and gains one entry per pass
\* over the partition (one worklist block, one symbol) that splits at least
\* one block, labelled with that symbol and holding the partition after the
\* pass; the entries after the first are at most as many as the splits, and
\* there is one as soon as there is a split.
C21_OneEntryPerSplittingPass ==
    /\ [](\A i \in Inv :
             LET f == frame[i] IN
             Preprocessed(f) =>
                 /\ TraceShape(f)
                 /\ Len(TraceOf(f)) - 1 <= SplitsPerformed(f)
                 /\ SplitsPerformed(f) > 0 => Len(TraceOf(f)) > 1)
    /\ [][\A i \in Inv :
             LET f == frame[i]
                 g == frame'[i]
             IN /\ (f.pc = "min_loop" /\ g.pc = "min_loop" /\ f.hop.rest # <<>>) =>
                       IF g.hop.P # f.hop.P
                       THEN g.hop.steps =
                                Append(f.hop.steps,
                                       [label |-> "Refine on symbol",
                                        symbol |-> Head(f.hop.rest),
                                        partition |-> g.hop.P])
                       ELSE g.hop.steps = f.hop.steps
                /\ (f.pc = "min_loop" /\ g.pc = "min_loop" /\ f.hop.rest = <<>>) =>
                       g.hop.steps = f.hop.steps /\ g.hop.P = f.hop.P
                /\ (f.pc = "min_loop" /\ g.pc # "min_loop") =>
                       g.steps = f.hop.steps]_vars

C21_Witness ==
    \E i \in Inv :
        LET f == frame[i] IN
        /\ f.pc = "sim"
        /\ Len(f.steps) >= 3
        /\ Len(f.steps) - 1 < SplitsPerformed(f)
        /\ f.steps[Len(f.steps)].partition = f.hop.P

\* The worklist W2 that the standard rule leaves after the blocks of P were
\* tried against the set X, from worklist W: a block that is not split
\* stays on or off the worklist; a split block leaves it, with both its
\* parts queued if it was on it and else only the smaller part, the
\* intersection on a tie; nothing else is queued.
StandardRule(P, W, X, W2) ==
    LET on == Range(W)
        on2 == Range(W2)
        IsSplit(Y) == (Y \cap X) # {} /\ (Y \ X) # {}
        Smaller(Y) == IF Cardinality(Y \cap X) <= Cardinality(Y \ X)
                      THEN Y \cap X ELSE Y \ X
        Larger(Y) == IF Cardinality(Y \cap X) <= Cardinality(Y \ X)
                     THEN Y \ X ELSE Y \cap X
    IN /\ \A Y \in Range(P) :
              IF ~IsSplit(Y) THEN (Y \in on2 <=> Y \in on)
              ELSE /\ Y \notin on2
                   /\ IF Y \in on THEN (Y \cap X) \in on2 /\ (Y \ X) \in on2
                      ELSE Smaller(Y) \in on2 /\ Larger(Y) \notin on2
       /\ \A B \in on2 :
              \/ B \in on
              \/ \E Y \in Range(P) : IsSplit(Y) /\ B \in {Y \cap X, Y \ X}

\* C22: every pass of the refinement loop updates the worklist by the
\* standard rule; between passes every block on the worklist is a block of
\* the current partition and no block is on the worklist twice.
C22_WorklistStandardRule ==
    /\ [][\A i \in Inv :
             LET f == frame[i]
                 g == frame'[i]
                 h == f.hop
                 c == Head(h.rest)
                 X == {q \in h.states : h.trans[q][c] \in h.A}
             IN (f.pc = "min_loop" /\ g.pc = "min_loop" /\ h.rest # <<>>) =>
                    StandardRule(h.P, h.W, X, g.hop.W)]_vars
    /\ [](\A i \in Inv :
             LET h == frame[i].hop IN
             frame[i].pc = "min_loop" =>
                /\ \A k \in 1..Len(h.W) : h.W[k] \in Range(h.P)
                /\ \A k, l \in 1..Len(h.W) : k # l => h.W[k] # h.W[l])

C22_Witness ==
    \E i \in Inv :
        LET h == frame[i].hop
            P0 == h.steps[1].partition
        IN /\ frame[i].pc = "min_loop"
           /\ Len(h.steps) >= 3
           /\ Len(h.W) >= 2
           /\ \E k \in 1..Len(h.W) : h.W[k] \notin Range(P0)
           /\ \E k \in 1..Len(h.P) : h.P[k] \notin Range(h.W) /\ h.P[k] \notin Range(P0)

(***************************************************************************)
(* Properties of the simulator and of the postfix conversion.              *)
(***************************************************************************)
\* C23: for a non-empty input the trace starts at the minimal start state;
\* entry k consumes character k from the state the entry before led to; an
\* entry is a reject entry exactly when its state has no transition on its
\* character, and then it is the last one and the verdict is Rejected;
\* otherwise the whole string is consumed and the verdict is Accepted iff
\* the last entry's next state is final.
C23_SimulationFollowsTransitions ==
    \A i \in Inv :
        LET f == frame[i]
            m == f.min_dfa
            s == f.teststring
            t == f.simulation.trace
            n == Len(t)
        IN (f.pc = "done" /\ s # <<>>) =>
              /\ n >= 1 /\ n <= Len(s)
              /\ t[1][1] = m.start
              /\ \A k \in 1..n :
                     /\ t[k][2] = s[k]
                     /\ t[k][1] \in DOMAIN m.transitions
                     /\ IF s[k] \in DOMAIN m.transitions[t[k][1]]
                        THEN t[k][3] = m.transitions[t[k][1]][s[k]]
                        ELSE t[k][3] = REJECT /\ k = n
                     /\ k < n => t[k + 1][1] = t[k][3]
              /\ IF t[n][3] = REJECT
                 THEN f.simulation.result = "Rejected"
                 ELSE /\ n = Len(s)
                      /\ f.simulation.result =
                             (IF t[n][3] \in m.final_states THEN "Accepted" ELSE "Rejected")

C23_Witness ==
    \E i \in Inv :
        LET f == frame[i]
            t == f.simulation.trace
        IN /\ f.pc = "done"
           /\ Len(f.teststring) = 3
           /\ Len(t) = 2
           /\ t[1][3] # t[1][1]
           /\ t[2][3] = REJECT
           /\ f.simulation.result = "Rejected"

\* Expression trees: a symbol, or an operator over its operand trees
Leaf(c) == [op |-> "sym", sym |-> c, kids |-> <<>>]
Node(op, kids) == [op |-> op, sym |-> "", kids |-> kids]
NoTree == [op |-> "none", sym |-> "", kids |-> <<>>]

\* The outcome of reading part of an infix expression: the tree read and the
\* position after it
ReadOk(tree, pos) == [ok |-> TRUE, tree |-> tree, pos |-> pos]
ReadFail == [ok |-> FALSE, tree |-> NoTree, pos |-> 0]

RECURSIVE ReadUnion(_, _)
RECURSIVE UnionRest(_, _, _)
RECURSIVE ReadConcat(_, _)
RECURSIVE ConcatRest(_, _, _)
RECURSIVE ReadStarred(_, _)
RECURSIVE StarRest(_, _, _)
RECURSIVE ReadAtom(_, _)

\* A symbol or a parenthesised expression, at position i of s
ReadAtom(s, i) ==
    IF i > Len(s) THEN ReadFail
    ELSE IF IsAlnum(s[i]) THEN ReadOk(Leaf(s[i]), i + 1)
    ELSE IF s[i] = "("
    THEN LET r == ReadUnion(s, i + 1) IN
         IF r.ok /\ r.pos <= Len(s) /\ s[r.pos] = ")"
         THEN ReadOk(r.tree, r.pos + 1) ELSE ReadFail
    ELSE ReadFail

\* '*' binds tightest: the stars that follow an atom apply to it
StarRest(s, tree, i) ==
    IF i <= Len(s) /\ s[i] = "*" THEN StarRest(s, Node("*", <<tree>>), i + 1)
    ELSE ReadOk(tree, i)

ReadStarred(s, i) ==
    LET a == ReadAtom(s, i) IN
    IF a.ok THEN StarRest(s, a.tree, a.pos) ELSE ReadFail

\* Concatenation, by juxtaposition, binds next and groups to the left
ConcatRest(s, left, i) ==
    IF i <= Len(s) /\ (IsAlnum(s[i]) \/ s[i] = "(")
    THEN LET r == ReadStarred(s, i) IN
         IF r.ok THEN ConcatRest(s, Node(".", <<left, r.tree>>), r.pos) ELSE ReadFail
    ELSE ReadOk(left, i)

ReadConcat(s, i) ==
    LET r == ReadStarred(s, i) IN
    IF r.ok THEN ConcatRest(s, r.tree, r.pos) ELSE ReadFail

\* '+' binds loosest and groups to the left
UnionRest(s, left, i) ==
    IF i <= Len(s) /\ s[i] = "+"
    THEN LET r == ReadConcat(s, i + 1) IN
         IF r.ok THEN UnionRest(s, Node("+", <<left, r.tree>>), r.pos) ELSE ReadFail
    ELSE ReadOk(left, i)

ReadUnion(s, i) ==
    LET r == ReadConcat(s, i) IN
    IF r.ok THEN UnionRest(s, r.tree, r.pos) ELSE ReadFail

\* The tree of an infix regex read with '*' > concatenation > '+', all
\* left-associative, parentheses overriding; NoTree when it is no expression
InfixTree(regex) ==
    LET s == Stripped(regex)
        r == ReadUnion(s, 1)
    IN IF r.ok /\ r.pos = Len(s) + 1 THEN r.tree ELSE NoTree

RECURSIVE PostfixEval(_, _, _)
\* The tree a postfix string denotes, from token k on with the operand trees
\* read so far on the stack; NoTree when an operator lacks an operand or the
\* operands do not end as one tree
PostfixEval(p, k, stack) ==
    LET n == Len(stack) IN
    IF k > Len(p) THEN (IF n = 1 THEN stack[1] ELSE NoTree)
    ELSE IF IsAlnum(p[k]) THEN PostfixEval(p, k + 1, Append(stack, Leaf(p[k])))
    ELSE IF p[k] = "*" /\ n >= 1
    THEN PostfixEval(p, k + 1, Append(SubSeq(stack, 1, n - 1), Node("*", <<stack[n]>>)))
    ELSE IF p[k] \in {".", "+"} /\ n >= 2
    THEN PostfixEval(p, k + 1,
                     Append(SubSeq(stack, 1, n - 2), Node(p[k], <<stack[n - 1], stack[n]>>)))
    ELSE NoTree

PostfixTree(p) == PostfixEval(p, 1, <<>>)

\* to_postfix has just returned to the invocation
JustParsed(f) == f.pc = "nfa" /\ f.tokpos = 1 /\ f.fresh = <<>>

\* C24: for every regex that validate accepts, the postfix denotes the tree
\* of the infix read with '*' > '.' > '+', left-associative, parentheses
\* overriding (and denotes no tree when the infix is no expression);
\* a+bc* becomes abc*.+ and (a+b)c becomes ab+c. .
C24_PostfixDenotesInfixTree ==
    \A i \in Inv :
        LET f == frame[i] IN
        JustParsed(f) =>
            /\ PostfixTree(f.postfix) = InfixTree(f.regex)
            /\ f.regex = <<"a", "+", "b", "c", "*">> =>
                   f.postfix = <<"a", "b", "c", "*", ".", "+">>
            /\ f.regex = <<"(", "a", "+", "b", ")", "c">> =>
                   f.postfix = <<"a", "b", "+", "c", ".">>

C24_Witness ==
    \E i \in Inv :
        LET f == frame[i] IN
        /\ JustParsed(f)
        /\ f.regex = <<"(", "a", "+", "b", ")", "c">>
        /\ f.postfix = <<"a", "b", "+", "c", ".">>
        /\ PostfixTree(f.postfix) =
               Node(".", <<Node("+", <<Leaf("a"), Leaf("b")>>), Leaf("c")>>)
=============================================================================
